---------------------------- MODULE Spec2Model ----------------------------
(***************************************************************************)
(* A model of src/src/utils.ts of auth0-spa-js: the token exchange client  *)
(* (oauthToken / getJSON / fetchWithTimeout / switchFetch / sendMessage)   *)
(* and the two authenticators (runIframe, runPopup).                       *)
(*                                                                         *)
(* JavaScript is single threaded: every action below is one task of the    *)
(* event loop (a timer callback, a message event, a network completion, a  *)
(* call made by the caller) together with the microtasks it triggers, i.e. *)
(* the continuations of the promises it settles. Time is not measured: a   *)
(* timer that is armed may fire at any moment. The network, the worker and *)
(* the windows that post messages are the environment: what they answer,   *)
(* and whether they answer at all, is chosen freely.                       *)
(***************************************************************************)
EXTENDS Integers, Sequences, FiniteSets, TLC

\* ------------------------------------------------------------------ bounds

\* Number of oauthToken calls the caller may make.
MaxCalls == 1

\* Number of runIframe / runPopup calls the caller may make.
MaxAttempts == 2

\* ------------------------------------------------------ program constants

\* Imported from ./constants: the retry count of the token exchange, 3 by
\* default.
DEFAULT_SILENT_TOKEN_RETRY_COUNT == 3

Calls == 1 .. MaxCalls
Tries == 1 .. DEFAULT_SILENT_TOKEN_RETRY_COUNT
\* The fetchWithTimeout calls a getJSON call could make if its loop went round
\* once more than the bound allows.
Slots == 1 .. DEFAULT_SILENT_TOKEN_RETRY_COUNT + 1
Attempts == 1 .. MaxAttempts

\* ------------------------------------------------------------------ values

\* A property that is missing from an object reads as undefined.
Absent == "<undefined>"

Null      == [tag |-> "null"]
Undefined == [tag |-> "undefined"]

\* JavaScript truthiness of the values tested by the code.
TruthyStr(s) == s \notin {Absent, ""}
TruthyVal(v) == v.tag \notin {"null", "undefined"}

\* A promise: pending, or settled once and for all.
Pending      == [state |-> "pending", value |-> Undefined]
Fulfilled(v) == [state |-> "fulfilled", value |-> v]
Rejected(v)  == [state |-> "rejected", value |-> v]

\* Variant of Settle in which the last call wins, as with a plain callback.
SettleLast(p, q) == q

\* resolve(v) / reject(v) of a promise: a promise that is already settled
\* keeps its state.
Settle(p, q) == IF p.state = "pending" THEN q ELSE p

\* new Error(message): every construction is a fresh object, told apart here
\* by the place and the attempt that made it.
NewError(name, message, at) ==
  [tag |-> "Error", name |-> name, message |-> message, at |-> at]

\* Bodies a token endpoint may answer with: tokens alone, an error with its
\* description beside the other fields, and an empty error code with no
\* description.
Body(error, error_description) ==
  [error |-> error, error_description |-> error_description, rest |-> "tokens"]
Bodies ==
  {Body(Absent, Absent), Body("invalid_grant", "bad code"), Body("", Absent)}

\* {ok, json}: what switchFetch resolves with.
Response(ok, json) == [tag |-> "response", ok |-> ok, json |-> json]

\* What the worker may post back: {error: string} or {ok, json}.
WorkerErrors == {"Failed to fetch"}
Replies ==
  [error : WorkerErrors, ok : {FALSE}, json : {Undefined}]
    \cup [error : {Absent}, ok : BOOLEAN, json : Bodies]


\* const TIMEOUT_ERROR, and the popup variant { ...TIMEOUT_ERROR, popup }.
TIMEOUT_ERROR == [error |-> "timeout", error_description |-> "Timeout"]
PopupTimeoutError(popup) ==
  [error |-> "timeout", error_description |-> "Timeout", popup |-> popup]

\* Cross-window message events: e.origin, e.data and whether e.source is set.
\* e.data is null, or an object with a type and a response.
Origins == {"https://tenant.auth0.com", "https://evil.example"}
AuthResponses ==
  {[error |-> Absent, code |-> "code1"],
   [error |-> "login_required", code |-> Absent]}
NullData == [tag |-> "null"]
Datas ==
  {NullData}
    \cup [tag : {"object"}, type : {"other"},
          response : {[error |-> Absent, code |-> "code1"]}]
    \cup [tag : {"object"}, type : {"authorization_response"},
          response : AuthResponses]
MessageEvents == [origin : Origins, data : Datas, source : BOOLEAN]

\* ------------------------------------------------------------------- state

VARIABLES
  call,       \* call[c]: the frame of the c-th getJSON call and its promise
  fetch,      \* fetch[c][k]: the k-th fetchWithTimeout call of getJSON call c
  onmessage,  \* onmessage[ch]: the sendMessage call whose handler port1 holds
  inbox       \* requests posted to the worker and not yet answered

tokenVars == <<call, fetch, onmessage, inbox>>

VARIABLES
  attempt,    \* attempt[a]: the a-th runIframe / runPopup call
  listeners,  \* the attempts whose handler is a 'message' listener of window
  popups      \* popups[w]: the popup window w is "none", "open" or "closed"

authVars == <<attempt, listeners, popups>>

vars == <<call, fetch, onmessage, inbox, attempt, listeners, popups>>

\* A getJSON call that was not made yet.
NoCall ==
  [started |-> FALSE, worker |-> FALSE, i |-> 0, fetchError |-> Undefined,
   response |-> Undefined, promise |-> Pending]

\* A fetchWithTimeout call that was not made yet. aborted is the state of its
\* controller's signal, signal whether the request that switchFetch issued
\* carries that signal, stage where switchFetch stands, from the request
\* whose reply settled its sendMessage promise, reply the event.data of
\* that reply when it came before the timer fired (a later one is dropped
\* with the lost race), race the promise that fetchWithTimeout returns.
NoReply == [error |-> Absent, ok |-> FALSE, json |-> Undefined]
NoFetch ==
  [timer |-> "unset", aborted |-> FALSE, signal |-> FALSE, stage |-> "none",
   from |-> <<0, 0>>, reply |-> NoReply, race |-> Pending]

TokenInit ==
  /\ call = [c \in Calls |-> NoCall]
  /\ fetch = [c \in Calls |-> [k \in Slots |-> NoFetch]]
  /\ onmessage = <<>>
  /\ inbox = {}

\* ------------------------------------------------- getJSON, after its loop

\* const { json: { error, error_description, ...success }, ok } = response
Strip(json) == [rest |-> json.rest]

\* The error thrown for a response with ok = false.
HttpError(json) ==
  LET errorMessage ==
        IF TruthyStr(json.error_description)
          THEN json.error_description
          ELSE "HTTP error. Unable to fetch <url>"
  IN  [tag |-> "Error", name |-> "Error", message |-> errorMessage,
       error |-> IF TruthyStr(json.error) THEN json.error ELSE "request_error",
       error_description |-> errorMessage]

\* What the promise of getJSON settles with once the loop is left.
AfterLoop(fetchError, response) ==
  IF TruthyVal(fetchError)
    THEN Rejected(fetchError)
    ELSE IF ~response.ok
           THEN Rejected(HttpError(response.json))
           ELSE Fulfilled(Strip(response.json))

\* Variant of FetchErrorAfter without the assignment fetchError = null.
FetchErrorKept(p, previous) ==
  IF p.state = "fulfilled" THEN previous ELSE p.value

\* fetchError after an attempt: null once an attempt resolved, else the error
\* that was caught.
FetchErrorAfter(p, previous) ==
  IF p.state = "fulfilled" THEN Null ELSE p.value

\* Variant of LoopsAgain that also retries a response with ok = false.
LoopsAgainOnHttp(p, i) ==
  /\ \/ p.state = "rejected"
     \/ ~p.value.ok
  /\ i + 1 < DEFAULT_SILENT_TOKEN_RETRY_COUNT

\* Variant of LoopsAgain that gives up after a timeout.
LoopsAgainUnlessTimeout(p, i) ==
  /\ p.state = "rejected"
  /\ p.value.message # "Timeout when executing 'fetch'"
  /\ i + 1 < DEFAULT_SILENT_TOKEN_RETRY_COUNT

\* Variant of LoopsAgain with the loop condition i <= bound.
LoopsAgainOneMore(p, i) ==
  p.state = "rejected" /\ i < DEFAULT_SILENT_TOKEN_RETRY_COUNT

\* The loop goes round again: the attempt was caught and i + 1 is below the
\* bound.
LoopsAgain(p, i) ==
  p.state = "rejected" /\ i + 1 < DEFAULT_SILENT_TOKEN_RETRY_COUNT

\* ------------------------------------------ fetchWithTimeout and transport

\* Variant of NewChannel with one channel shared by all sendMessage calls.
SharedChannel(c, k) == 1

\* new MessageChannel() in the sendMessage call of attempt k of call c: a new
\* object, named here after the call that made it.
NewChannel(c, k) == (c - 1) * (DEFAULT_SILENT_TOKEN_RETRY_COUNT + 1) + k

\* Variant of SetTimeout in which no timer is set.
SetTimeoutNot == "unset"

\* setTimeout(..., timeout) in fetchWithTimeout: the timer is armed.
SetTimeout == "armed"

\* Variant of SignalPassed in which the worker's request keeps the signal.
SignalKept(w) == TRUE

\* Whether the request carries fetchOptions.signal: switchFetch deletes it
\* before it posts to a worker, and hands it to fetch otherwise.
SignalPassed(w) == ~w

\* fetchWithTimeout(url, options, worker, timeout) called as the k-th attempt
\* of call c, with f the fetch state and ib the worker's inbox so far: a new
\* controller, the timer armed and switchFetch started, which either calls
\* fetch or has sendMessage post the request to the worker.
StartFetch(c, k, w, f, ib) ==
  /\ fetch' = [f EXCEPT ![c][k] =
                 [NoFetch EXCEPT !.timer = SetTimeout,
                                 !.signal = SignalPassed(w),
                                 !.stage = IF w THEN "sent" ELSE "fetching"]]
  /\ IF w
       THEN LET ch == NewChannel(c, k)
            IN  /\ onmessage' = (ch :> <<c, k>>) @@ onmessage
                /\ inbox' = ib \cup {[port |-> ch, req |-> <<c, k>>]}
       ELSE /\ inbox' = ib
            /\ UNCHANGED onmessage

\* The continuation of getJSON's await once the race of attempt k settled
\* with p: break out of the loop, or catch and go round.
Resume(c, k, f, ib, p) ==
  LET cs == call[c]
      fetchError == FetchErrorAfter(p, cs.fetchError)
      response == IF p.state = "fulfilled" THEN p.value ELSE cs.response
  IN  IF LoopsAgain(p, cs.i)
        THEN /\ call' = [call EXCEPT ![c] =
                           [cs EXCEPT !.i = cs.i + 1, !.fetchError = fetchError]]
             /\ StartFetch(c, k + 1, cs.worker, f, ib)
        ELSE /\ call' = [call EXCEPT ![c] =
                           [cs EXCEPT !.i = IF p.state = "fulfilled"
                                              THEN cs.i ELSE cs.i + 1,
                                      !.fetchError = fetchError,
                                      !.response = response,
                                      !.promise = AfterLoop(fetchError, response)]]
             /\ fetch' = f
             /\ inbox' = ib
             /\ UNCHANGED onmessage

\* One side of the Promise.race of attempt k of call c completes with p, the
\* rest of the state being f and ib: the first completion settles the race
\* and resumes getJSON, a later one is dropped.
Race(c, k, f, ib, p) ==
  IF fetch[c][k].race.state = "pending"
    THEN Resume(c, k, [f EXCEPT ![c][k].race = p], ib, p)
    ELSE /\ fetch' = f
         /\ inbox' = ib
         /\ UNCHANGED <<call, onmessage>>

\* ----------------------------------------------------------------- actions

\* The caller calls oauthToken, with a worker or without: getJSON runs up to
\* its first await.
OauthToken(c, w) ==
  /\ UNCHANGED authVars
  /\ ~call[c].started
  /\ \A d \in Calls : d < c => call[d].started
  /\ call' = [call EXCEPT ![c] = [NoCall EXCEPT !.started = TRUE, !.worker = w]]
  /\ StartFetch(c, 1, w, fetch, inbox)

\* Direct mode: fetch and then response.json() resolved, and switchFetch
\* resolves with {ok, json}.
SwitchFetchResolves(c, k, ok, json) ==
  /\ UNCHANGED authVars
  /\ fetch[c][k].stage = "fetching"
  /\ Race(c, k, [fetch EXCEPT ![c][k].stage = "done"], inbox,
          Fulfilled(Response(ok, json)))

\* Direct mode: fetch rejected (no connection, DNS, abort) or response.json()
\* did (the body is no JSON, or was cut), and switchFetch rejects with that
\* error.
SwitchFetchRejects(c, k) ==
  /\ UNCHANGED authVars
  /\ fetch[c][k].stage = "fetching"
  /\ Race(c, k, [fetch EXCEPT ![c][k].stage = "done"], inbox,
          Rejected(NewError(IF fetch[c][k].aborted
                              THEN "AbortError" ELSE "TypeError",
                            "Failed to fetch", <<c, k>>)))

\* Variant of Abort with one controller for all attempts of a getJSON call.
AbortShared(f, c, k) ==
  [f EXCEPT ![c] = [j \in Slots |->
                      IF f[c][j].stage = "none" THEN f[c][j]
                      ELSE [f[c][j] EXCEPT !.aborted = TRUE]]]

\* controller.abort() in the timer callback of attempt k of call c: the
\* controller is the one created by that fetchWithTimeout call.
Abort(f, c, k) == [f EXCEPT ![c][k].aborted = TRUE]

\* The timer of fetchWithTimeout fires: controller.abort() and the timeout
\* side of the race rejects. Nothing clears this timer.
TimerFires(c, k) ==
  /\ UNCHANGED authVars
  /\ fetch[c][k].timer = "armed"
  /\ LET e == NewError("Error", "Timeout when executing 'fetch'", <<c, k>>)
     IN  Race(c, k, Abort([fetch EXCEPT ![c][k].timer = "fired"], c, k), inbox,
              Rejected(e))

\* Variant of OnMessage in which a reply that is not ok rejects as well.
OnMessageRejectsNotOk(d, t) ==
  IF TruthyStr(d.error) \/ ~d.ok
    THEN Rejected(NewError("Error", d.error, t))
    ELSE Fulfilled(Response(d.ok, d.json))

\* What port1.onmessage settles the sendMessage promise of attempt t with,
\* given event.data = d.
OnMessage(d, t) ==
  IF TruthyStr(d.error)
    THEN Rejected(NewError("Error", d.error, t))
    ELSE Fulfilled(Response(d.ok, d.json))

\* Delegated mode: the worker answers request m on the port it came with and
\* port1.onmessage of that channel runs with event.data = d.
PortOnMessage(m, d) ==
  /\ UNCHANGED authVars
  /\ m \in inbox
  /\ LET t == onmessage[m.port]
         c == t[1]
         k == t[2]
     IN  IF fetch[c][k].stage = "sent"
           THEN Race(c, k, [fetch EXCEPT ![c][k].stage = "done",
                                         ![c][k].from = m.req,
                                         ![c][k].reply =
                                           IF fetch[c][k].race = Pending
                                             THEN d ELSE NoReply],
                     inbox \ {m}, OnMessage(d, t))
           ELSE /\ inbox' = inbox \ {m}
                /\ UNCHANGED <<call, fetch, onmessage>>

TokenNext ==
  \/ \E c \in Calls, w \in BOOLEAN : OauthToken(c, w)
  \/ \E c \in Calls, k \in Slots, ok \in BOOLEAN, json \in Bodies :
       SwitchFetchResolves(c, k, ok, json)
  \/ \E c \in Calls, k \in Slots : SwitchFetchRejects(c, k)
  \/ \E c \in Calls, k \in Slots : TimerFires(c, k)
  \/ \E m \in inbox, d \in Replies : PortOnMessage(m, d)

\* ------------------------------------------------- runIframe and runPopup

\* A runIframe / runPopup call that was not made yet. exit is how the call
\* came back: with a promise, or by throwing.
NoAttempt ==
  [kind |-> "none", exit |-> "none", eventOrigin |-> "", promise |-> Pending,
   timer |-> "unset", inBody |-> FALSE, cleanup |-> 0, popup |-> 0,
   srcClosed |-> FALSE]

AuthInit ==
  /\ attempt = [a \in Attempts |-> NoAttempt]
  /\ listeners = {}
  /\ popups = [w \in Attempts |-> "none"]

\* The window state the handlers read and write.
Window == [attempt |-> attempt, listeners |-> listeners, popups |-> popups]

\* Variant of ClearTimeout that leaves the timer armed.
ClearTimeoutNot(t) == t

\* clearTimeout(id): a timer that fired or was cleared stays as it is.
ClearTimeout(t) == IF t = "armed" THEN "cleared" ELSE t

\* Variant of RemoveIframe that leaves the iframe in the document.
RemoveIframeNever(at) == at

\* removeIframe: the iframe is taken out of the document if it is in it.
RemoveIframe(at) == [at EXCEPT !.inBody = FALSE]

\* Variant of OriginMismatch that accepts every origin.
OriginAny(e, eventOrigin) == FALSE

\* if (e.origin != eventOrigin) return;
OriginMismatch(e, eventOrigin) == e.origin # eventOrigin

\* if (!e.data || e.data.type !== 'authorization_response') return;
NotAuthorizationResponse(data) ==
  \/ data.tag = "null"
  \/ data.type # "authorization_response"

\* rej(response) or res(response), by the response's error field.
Outcome(response) ==
  IF TruthyStr(response.error) THEN Rejected(response) ELSE Fulfilled(response)

\* iframeEventHandler of attempt a, run on event e in window state st.
IframeEventHandler(st, a, e) ==
  LET at == st.attempt[a]
  IN  IF OriginMismatch(e, at.eventOrigin) THEN st
      ELSE IF NotAuthorizationResponse(e.data) THEN st
      ELSE [st EXCEPT
              !.attempt[a] =
                [at EXCEPT !.srcClosed = @ \/ e.source,
                           !.promise = Settle(@, Outcome(e.data.response)),
                           !.timer = ClearTimeout(@),
                           !.cleanup = @ + 1],
              !.listeners = @ \ {a}]

\* Variant of PopupEventHandler that accepts one origin only.
PopupEventHandlerOneOrigin(st, a, e) ==
  LET at == st.attempt[a]
  IN  IF e.origin # "https://tenant.auth0.com" THEN st
      ELSE IF NotAuthorizationResponse(e.data) THEN st
      ELSE [st EXCEPT
              !.attempt[a] =
                [at EXCEPT !.timer = ClearTimeout(@),
                           !.promise = Settle(@, Outcome(e.data.response))],
              !.popups[at.popup] = "closed"]

\* Variant of PopupEventHandler that removes itself once it handled a message.
PopupEventHandlerOnce(st, a, e) ==
  LET at == st.attempt[a]
  IN  IF NotAuthorizationResponse(e.data) THEN st
      ELSE [st EXCEPT
              !.attempt[a] =
                [at EXCEPT !.timer = ClearTimeout(@),
                           !.promise = Settle(@, Outcome(e.data.response))],
              !.popups[at.popup] = "closed",
              !.listeners = @ \ {a}]

\* The message listener of popup attempt a, run on event e in state st.
PopupEventHandler(st, a, e) ==
  LET at == st.attempt[a]
  IN  IF NotAuthorizationResponse(e.data) THEN st
      ELSE [st EXCEPT
              !.attempt[a] =
                [at EXCEPT !.timer = ClearTimeout(@),
                           !.promise = Settle(@, Outcome(e.data.response))],
              !.popups[at.popup] = "closed"]

\* window dispatches e: the listeners registered when the dispatch began run
\* one after the other, in the order of their registration.
RECURSIVE Dispatch(_, _, _, _)
Dispatch(st, registered, e, a) ==
  IF a > MaxAttempts THEN st
  ELSE Dispatch(IF a \notin registered THEN st
                ELSE IF st.attempt[a].kind = "iframe"
                       THEN IframeEventHandler(st, a, e)
                       ELSE PopupEventHandler(st, a, e),
                registered, e, a + 1)

\* Variant of IframeTimeout that removes the iframe and rejects nothing.
IframeTimeoutSilent(at) ==
  RemoveIframe([at EXCEPT !.timer = "fired"])

\* The timeout callback of iframe attempt a: rej(TIMEOUT_ERROR); removeIframe().
IframeTimeout(at) ==
  RemoveIframe([at EXCEPT !.timer = "fired",
                          !.promise = Settle(@, Rejected(TIMEOUT_ERROR))])

\* Variant of PopupTimeout that rejects with TIMEOUT_ERROR alone.
PopupTimeoutBare(at) ==
  [at EXCEPT !.timer = "fired",
             !.promise = Settle(@, Rejected(TIMEOUT_ERROR))]

\* The timeout callback of popup attempt a: reject({ ...TIMEOUT_ERROR, popup }).
PopupTimeout(at) ==
  [at EXCEPT !.timer = "fired",
             !.promise = Settle(@, Rejected(PopupTimeoutError(at.popup)))]

\* The a-th call is the next one the caller makes.
NextCall(a) ==
  /\ attempt[a].kind = "none"
  /\ \A b \in Attempts : b < a => attempt[b].kind # "none"

\* runIframe(authorizeUrl, eventOrigin): the promise's executor runs at once.
RunIframe(a, eventOrigin) ==
  /\ UNCHANGED tokenVars
  /\ NextCall(a)
  /\ attempt' = [attempt EXCEPT ![a] =
                   [NoAttempt EXCEPT !.kind = "iframe", !.exit = "promise",
                                     !.eventOrigin = eventOrigin,
                                     !.timer = "armed", !.inBody = TRUE]]
  /\ listeners' = listeners \cup {a}
  /\ UNCHANGED popups

\* Variant of NoPopup that lets a missing handle through.
PopupCheckSkipped(popup) == FALSE

\* The test of the popup handle in runPopup: if (!popup) throw.
NoPopup(popup) == popup = 0

\* runPopup(authorizeUrl, config): config.popup is a window handle the caller
\* holds (given) or missing (0); opened says whether window.open yields a
\* window, which then is window a.
RunPopup(a, given, opened) ==
  /\ UNCHANGED tokenVars
  /\ NextCall(a)
  /\ given # 0 => popups[given] # "none"
  /\ LET popup == IF given # 0 THEN given ELSE IF opened THEN a ELSE 0
     IN  IF NoPopup(popup)
           THEN /\ attempt' = [attempt EXCEPT ![a] =
                                 [NoAttempt EXCEPT !.kind = "popup",
                                                   !.exit = "threw"]]
                /\ UNCHANGED <<listeners, popups>>
           ELSE /\ attempt' = [attempt EXCEPT ![a] =
                                 [NoAttempt EXCEPT !.kind = "popup",
                                                   !.exit = "promise",
                                                   !.timer = "armed",
                                                   !.popup = popup]]
                /\ listeners' = listeners \cup {a}
                /\ popups' = IF given = 0 /\ popup # 0
                               THEN [popups EXCEPT ![popup] = "open"]
                               ELSE popups

\* A message event reaches window.
DispatchMessage(e) ==
  /\ UNCHANGED tokenVars
  /\ \E a \in Attempts : attempt[a].kind # "none"
  /\ LET st == Dispatch(Window, listeners, e, 1)
     IN  /\ attempt' = st.attempt
         /\ listeners' = st.listeners
         /\ popups' = st.popups

\* The timeout timer of attempt a fires.
TimeoutFires(a) ==
  /\ UNCHANGED tokenVars
  /\ attempt[a].timer = "armed"
  /\ attempt' = [attempt EXCEPT ![a] = IF @.kind = "iframe"
                                         THEN IframeTimeout(@)
                                         ELSE PopupTimeout(@)]
  /\ UNCHANGED <<listeners, popups>>

\* A timer set by setTimeout(removeIframe, CLEANUP_IFRAME_TIMEOUT_IN_SECONDS
\* * 1000) fires.
CleanupFires(a) ==
  /\ UNCHANGED tokenVars
  /\ attempt[a].cleanup > 0
  /\ attempt' = [attempt EXCEPT ![a] = RemoveIframe([@ EXCEPT !.cleanup = @ - 1])]
  /\ UNCHANGED <<listeners, popups>>

AuthNext ==
  \/ \E a \in Attempts, o \in Origins : RunIframe(a, o)
  \/ \E a \in Attempts, given \in {0} \cup Attempts, opened \in BOOLEAN :
       RunPopup(a, given, opened)
  \/ \E e \in MessageEvents : DispatchMessage(e)
  \/ \E a \in Attempts : TimeoutFires(a)
  \/ \E a \in Attempts : CleanupFires(a)

\* ---------------------------------------------------------- specifications

Init == TokenInit /\ AuthInit

\* The token exchange client alone.
SpecToken == Init /\ [][TokenNext]_vars

\* The two authenticators alone.
SpecAuth == Init /\ [][AuthNext]_vars

\* The timers of fetchWithTimeout fire in the end; nothing makes the network
\* or the worker answer.
FairSpecToken ==
  /\ SpecToken
  /\ \A c \in Calls, k \in Slots : WF_vars(TimerFires(c, k))

\* Timers that are armed fire in the end; nothing makes a message arrive.
FairSpecAuth ==
  /\ SpecAuth
  /\ \A a \in Attempts :
       /\ WF_vars(TimeoutFires(a))
       /\ WF_vars(CleanupFires(a))

\* ----------------------------------------------------- token exchange claims

\* The attempts of call c before the k-th all rejected.
EarlierRejected(c, k) ==
  \A j \in Tries : j < k => fetch[c][j].race.state = "rejected"

\* C1: if an attempt among the first 3 of a getJSON call completes with
\* ok = true and every earlier attempt rejected, the call resolves with that
\* attempt's body without its error and error_description fields; so it does
\* when the first two attempts reject and the third completes with ok = true.
C1_ResolvesWithFirstOkBody ==
  \A c \in Calls, k \in Tries :
    LET r == fetch[c][k].race
    IN  (r.state = "fulfilled" /\ r.value.ok /\ EarlierRejected(c, k))
          => call[c].promise = Fulfilled([rest |-> r.value.json.rest])

\* C1 witness: two rejected attempts, then a third with ok = true whose body
\* carries error fields, and the call resolved.
C1_Witness ==
  \E c \in Calls :
    /\ fetch[c][1].race.state = "rejected"
    /\ fetch[c][2].race.state = "rejected"
    /\ fetch[c][3].race = Fulfilled(Response(TRUE, Body("invalid_grant", "bad code")))
    /\ call[c].promise.state = "fulfilled"

\* error and error_description of the error thrown for body json are those
\* of the body when it has them, and the generic ones when it has none.
MapsBody(e, json) ==
  /\ TruthyStr(json.error) => e.error = json.error
  /\ json.error = Absent => e.error = "request_error"
  /\ TruthyStr(json.error_description)
       => e.error_description = json.error_description
  /\ json.error_description = Absent
       => e.error_description = "HTTP error. Unable to fetch <url>"

\* C2: once an attempt of a getJSON call completed with ok = false, no later
\* attempt of that call is ever made and the call is rejected with an error
\* whose error and error_description are those of the body, or the generic
\* ones; a first answer of {invalid_grant, bad code} rejects after one attempt
\* with exactly that error and description.
C2_HttpFailureIsTerminal ==
  \A c \in Calls, k \in Tries :
    LET r == fetch[c][k].race
    IN  (r.state = "fulfilled" /\ ~r.value.ok)
          => /\ \A j \in Slots : j > k => fetch[c][j] = NoFetch
             /\ call[c].promise.state = "rejected"
             /\ MapsBody(call[c].promise.value, r.value.json)
             /\ (k = 1 /\ r.value.json = Body("invalid_grant", "bad code"))
                  => /\ call[c].promise.value.error = "invalid_grant"
                     /\ call[c].promise.value.error_description = "bad code"

\* C2 witness: the first attempt was answered ok = false with invalid_grant
\* and the call is rejected.
C2_Witness ==
  \E c \in Calls :
    /\ fetch[c][1].race = Fulfilled(Response(FALSE, Body("invalid_grant", "bad code")))
    /\ call[c].promise.state = "rejected"

\* C3: when all 3 attempts of a getJSON call rejected, no 4th attempt is
\* made and the call is rejected with the error object that the 3rd attempt
\* raised.
C3_ThreeAttemptsLastError ==
  \A c \in Calls :
    /\ fetch[c][DEFAULT_SILENT_TOKEN_RETRY_COUNT + 1] = NoFetch
    /\ (\A k \in Tries : fetch[c][k].race.state = "rejected")
         => /\ call[c].promise = Rejected(fetch[c][3].race.value)
            /\ call[c].promise.value.at = <<c, 3>>
            /\ call[c].i = 3

\* C3 witness: three rejected attempts, of which the last timed out, and the
\* call is rejected.
C3_Witness ==
  \E c \in Calls :
    /\ \A k \in Tries : fetch[c][k].race.state = "rejected"
    /\ fetch[c][1].race.value.name = "TypeError"
    /\ fetch[c][3].race.value.message = "Timeout when executing 'fetch'"
    /\ call[c].promise.state = "rejected"

\* C10: the sendMessage promise of every delegated attempt is settled by the
\* reply to the request that this very attempt posted, whatever the order of
\* the worker's replies.
C10_NoCrossDelivery ==
  \A c \in Calls, k \in Slots :
    /\ fetch[c][k].from \in {<<0, 0>>, <<c, k>>}
    /\ (call[c].worker /\ fetch[c][k].stage = "done") => fetch[c][k].from = <<c, k>>

\* C10 witness: two delegated calls were in flight together, the first timed
\* out, and the worker answered the later one while the earlier one is still
\* outstanding.
C10_Witness ==
  \E c \in Calls :
    /\ fetch[c][1].stage = "sent"
    /\ fetch[c][1].race.state = "rejected"
    /\ fetch[c][2].stage = "done"
    /\ fetch[c][2].from = <<c, 2>>
    /\ \E m \in inbox : m.req = <<c, 1>>

\* The error that the timer of attempt k of call c rejects with.
TimeoutOf(c, k) == NewError("Error", "Timeout when executing 'fetch'", <<c, k>>)

\* The request of attempt k of call c is still on its way.
InFlight(c, k) == fetch[c][k].stage \in {"fetching", "sent"}

\* controller.abort() reached the request: the signal it carries is aborted.
Cancelled(c, k) == fetch[c][k].signal /\ fetch[c][k].aborted

\* C11 as stated: in both modes, a request still in flight when the timer of
\* its fetchWithTimeout call has fired is cancelled.
C11_CancelledInBothModes ==
  \A c \in Calls, k \in Slots :
    (fetch[c][k].timer = "fired" /\ InFlight(c, k)) => Cancelled(c, k)

\* C11 amended: every fetchWithTimeout call issues one request; when its
\* timer fires with the request in flight the call is rejected with the
\* Timeout error of that call, the request is cancelled in direct mode and
\* left as it is in delegated mode, and a result that arrives later changes
\* neither the call's promise nor getJSON.
C11_TimeoutWinsRace ==
  /\ [](\A c \in Calls, k \in Slots :
          /\ Cardinality({m \in inbox : m.req = <<c, k>>})
               = IF fetch[c][k].stage = "sent" THEN 1 ELSE 0
          /\ (fetch[c][k].timer = "fired" /\ InFlight(c, k))
               => /\ fetch[c][k].race = Rejected(TimeoutOf(c, k))
                  /\ Cancelled(c, k) = ~call[c].worker)
  /\ [][\A c \in Calls, k \in Slots :
          (fetch[c][k].timer = "fired" /\ InFlight(c, k)
             /\ fetch'[c][k].stage = "done")
            => /\ fetch'[c][k].race = fetch[c][k].race
               /\ call' = call]_vars

\* C11 witness: in delegated mode an attempt timed out and its result came late,
\* the rejection standing; seen from the next attempt being under way.
C11_Witness ==
  \E c \in Calls :
    /\ fetch[c][1].timer = "fired"
    /\ fetch[c][1].stage = "done"
    /\ fetch[c][1].race = Rejected(TimeoutOf(c, 1))
    /\ fetch[c][2].timer = "fired"
    /\ InFlight(c, 2)
    /\ call[c].worker

\* The worker replied to attempt k of call c before its timer fired.
Replied(c, k) ==
  call[c].worker /\ fetch[c][k].stage = "done" /\ fetch[c][k].reply # NoReply

\* C13: in delegated mode, a reply with an error field rejects the attempt
\* with that error and getJSON goes on to the next attempt while attempts are
\* left (after the last one it rejects with that error); a reply without an
\* error field is the attempt's result as it came, no attempt follows it, and
\* when it is not ok getJSON rejects with the error mapped from its body.
C13_ErrorReplyRetriedHttpNot ==
  \A c \in Calls, k \in Tries :
    Replied(c, k) =>
      LET d == fetch[c][k].reply
          p == call[c].promise
      IN  IF d.error # Absent
            THEN /\ fetch[c][k].race = Rejected(NewError("Error", d.error, <<c, k>>))
                 /\ IF k < DEFAULT_SILENT_TOKEN_RETRY_COUNT
                      THEN fetch[c][k + 1].stage # "none"
                      ELSE p = fetch[c][k].race
            ELSE /\ fetch[c][k].race = Fulfilled(Response(d.ok, d.json))
                 /\ fetch[c][k + 1] = NoFetch
                 /\ ~d.ok => /\ p.state = "rejected"
                             /\ p.value.name = "Error"
                             /\ MapsBody(p.value, d.json)

\* C13 witness: the worker answered the first attempt {error}, and the second
\* {ok: false, json} with an error code in the body.
C13_Witness ==
  \E c \in Calls :
    /\ Replied(c, 1) /\ fetch[c][1].reply.error # Absent
    /\ Replied(c, 2) /\ fetch[c][2].reply.error = Absent
    /\ ~fetch[c][2].reply.ok
    /\ fetch[c][2].reply.json.error = "invalid_grant"
    /\ call[c].promise.state = "rejected"

\* C17: whatever an attempt of getJSON was rejected with, its own Timeout
\* error or the error of the network or worker, the next attempt is made
\* while attempts are left and after the last one the call is rejected with
\* that error; three timed-out attempts end in the rejection with the Timeout
\* error of the third, and no fourth is made.
C17_TimeoutRetriedLikeFailure ==
  \A c \in Calls :
    /\ \A k \in Tries :
         fetch[c][k].race.state = "rejected"
           => IF k < DEFAULT_SILENT_TOKEN_RETRY_COUNT
                THEN fetch[c][k + 1].stage # "none"
                ELSE call[c].promise = fetch[c][k].race
    /\ (\A k \in Tries : fetch[c][k].race = Rejected(TimeoutOf(c, k)))
         => /\ call[c].promise
                 = Rejected(TimeoutOf(c, DEFAULT_SILENT_TOKEN_RETRY_COUNT))
            /\ fetch[c][DEFAULT_SILENT_TOKEN_RETRY_COUNT + 1] = NoFetch

\* C17 witness: the transport answered none of the three requests, all three
\* timers fired and the call is rejected.
C17_Witness ==
  \E c \in Calls :
    /\ \A k \in Tries : fetch[c][k].timer = "fired" /\ InFlight(c, k)
    /\ call[c].promise.state = "rejected"

\* C18: with timers that fire, every oauthToken call that was made is settled
\* in the end, whatever the network or the worker does; it makes no more than
\* DEFAULT_SILENT_TOKEN_RETRY_COUNT attempts, and none once it is settled.
C18_OauthTokenTerminates ==
  /\ \A c \in Calls : call[c].started ~> call[c].promise # Pending
  /\ [](\A c \in Calls :
          fetch[c][DEFAULT_SILENT_TOKEN_RETRY_COUNT + 1] = NoFetch)
  /\ [][\A c \in Calls, k \in Slots :
          (call[c].promise # Pending /\ fetch[c][k].stage = "none")
            => fetch'[c][k].stage = "none"]_vars

\* C18 witness: a call was settled by its timers alone, the transport having
\* answered only the first request, and that too late.
C18_Witness ==
  \E c \in Calls :
    /\ call[c].promise.state = "rejected"
    /\ fetch[c][1].stage = "done"
    /\ fetch[c][1].race = Rejected(TimeoutOf(c, 1))
    /\ InFlight(c, 2) /\ InFlight(c, 3)
    /\ fetch[c][3].timer = "fired"

\* The timer of attempt k of call c is armed though its race is over.
StaleTimer(c, k) ==
  fetch[c][k].timer = "armed" /\ fetch[c][k].race # Pending

\* C20: the timer of an attempt stays armed when the attempt's race is won
\* by the network; when such a timer fires it changes neither the call nor
\* any other attempt nor the result of its own; and an attempt is aborted,
\* or rejected with a Timeout error, by nothing but its own timer.
C20_StaleTimerHarmless ==
  /\ [](\A c \in Calls, k \in Slots :
          /\ (fetch[c][k].stage = "done" /\ fetch[c][k].timer # "fired")
               => StaleTimer(c, k)
          /\ fetch[c][k].aborted => fetch[c][k].timer = "fired"
          /\ ( /\ fetch[c][k].race.state = "rejected"
               /\ fetch[c][k].race.value.message = "Timeout when executing 'fetch'" )
               => /\ fetch[c][k].race.value.at = <<c, k>>
                  /\ fetch[c][k].timer = "fired")
  /\ [][\A c \in Calls, k \in Slots :
          (StaleTimer(c, k) /\ fetch'[c][k].timer = "fired")
            => /\ call' = call
               /\ fetch'[c][k].race = fetch[c][k].race
               /\ \A d \in Calls, j \in Slots :
                    <<d, j>> # <<c, k>> => fetch'[d][j] = fetch[d][j]
               /\ inbox' = inbox]_vars

\* C20 witness: the first attempt failed in the network and its timer fired
\* after that, while the second attempt is in flight, neither aborted nor
\* failed.
C20_Witness ==
  \E c \in Calls :
    /\ fetch[c][1].stage = "done"
    /\ fetch[c][1].race.state = "rejected"
    /\ fetch[c][1].race # Rejected(TimeoutOf(c, 1))
    /\ fetch[c][1].timer = "fired"
    /\ InFlight(c, 2)
    /\ fetch[c][2].race = Pending
    /\ ~fetch[c][2].aborted

\* ------------------------------------------------------ authenticator claims

Settled(a) == attempt[a].promise.state # "pending"

\* Event e is dropped by the handler of iframe attempt a.
Mismatch(a, e) ==
  \/ e.origin # attempt[a].eventOrigin
  \/ e.data.tag = "null"
  \/ e.data.type # "authorization_response"

\* C4: in every state, the dispatch of a message whose origin is not the
\* eventOrigin of an iframe attempt, or whose data is not tagged
\* authorization_response, leaves that attempt as it is: promise, iframe,
\* timer and listener.
C4_MismatchChangesNothing ==
  \A e \in MessageEvents, a \in Attempts :
    (attempt[a].kind = "iframe" /\ Mismatch(a, e))
      => LET st == Dispatch(Window, listeners, e, 1)
         IN  /\ st.attempt[a] = attempt[a]
             /\ (a \in st.listeners) = (a \in listeners)

\* C4 witness: an iframe attempt is pending with iframe, timer and listener in
\* place although a tagged message of another origin was dispatched after it
\* began, which settled a later attempt.
C4_Witness ==
  \E a, b \in Attempts :
    /\ a < b
    /\ attempt[a].kind = "iframe" /\ attempt[b].kind = "iframe"
    /\ attempt[a].eventOrigin # attempt[b].eventOrigin
    /\ attempt[b].promise.state = "fulfilled"
    /\ attempt[a].promise = Pending
    /\ attempt[a].timer = "armed"
    /\ attempt[a].inBody
    /\ a \in listeners

\* C5: an attempt whose timeout fired (which it does only with no matching
\* message handled before) is rejected with TIMEOUT_ERROR, in runPopup with
\* the popup handle of the attempt added; an attempt whose timer was cleared
\* by a matching message is settled with that message's response.
C5_TimeoutError ==
  \A a \in Attempts :
    /\ attempt[a].timer = "fired"
         => attempt[a].promise =
              IF attempt[a].kind = "iframe"
                THEN Rejected(TIMEOUT_ERROR)
                ELSE Rejected([error |-> "timeout", error_description |-> "Timeout",
                               popup |-> attempt[a].popup])
    /\ attempt[a].timer = "cleared"
         => /\ Settled(a)
            /\ attempt[a].promise.value \in AuthResponses

\* C5 witness: a popup attempt and an iframe attempt both timed out.
C5_Witness ==
  \E a, b \in Attempts :
    /\ attempt[a].kind = "popup" /\ attempt[a].timer = "fired"
    /\ attempt[a].promise.state = "rejected"
    /\ attempt[b].kind = "iframe" /\ attempt[b].timer = "fired"
    /\ attempt[b].promise.state = "rejected"

\* The handle of a settled attempt is released, or a timer that will release
\* it is pending.
Released(a) ==
  IF attempt[a].kind = "iframe"
    THEN ~attempt[a].inBody \/ attempt[a].cleanup > 0
    ELSE popups[attempt[a].popup] = "closed"

\* C6 as stated: on every exit path, timeout included, the settled attempt's
\* iframe is removed (or its removal is scheduled) and its popup is closed.
C6_ReleasedOnEveryExit ==
  \A a \in Attempts : Settled(a) => Released(a)

\* C6 amended: the iframe of a settled runIframe attempt is removed in the
\* end on every exit path; the popup of a runPopup attempt is closed once a
\* tagged message was handled, while the timeout step leaves the popup as it
\* is and hands it over in the rejection value.
C6_ReleasedExceptPopupTimeout ==
  /\ \A a \in Attempts :
       [](attempt[a].kind = "iframe" /\ Settled(a) => <>(~attempt[a].inBody))
  /\ [](\A a \in Attempts :
          (attempt[a].kind = "popup" /\ attempt[a].timer = "cleared")
            => popups[attempt[a].popup] = "closed")
  /\ [][\A a \in Attempts :
          (TimeoutFires(a) /\ attempt[a].kind = "popup")
            => /\ popups' = popups
               /\ attempt'[a].promise.value.popup = attempt[a].popup]_vars

\* C6 witness: an iframe attempt settled by a message has lost its iframe and
\* a popup attempt that timed out has its popup still open.
C6_Witness ==
  \E a, b \in Attempts :
    /\ attempt[a].kind = "iframe" /\ attempt[a].timer = "cleared"
    /\ ~attempt[a].inBody /\ attempt[a].cleanup = 0
    /\ attempt[b].kind = "popup" /\ attempt[b].timer = "fired"
    /\ popups[attempt[b].popup] = "open"

\* C7: a settled runIframe attempt has neither its listener registered nor
\* its timeout timer armed.
C7_TornDownTogether ==
  \A a \in Attempts :
    (attempt[a].kind = "iframe" /\ Settled(a))
      => a \notin listeners /\ attempt[a].timer # "armed"

\* C8: the promise of an attempt that has settled keeps its state and value
\* in every later step, whatever timer fires or message arrives.
C8_SettledOnce ==
  [][\A a \in Attempts : Settled(a) => attempt'[a].promise = attempt[a].promise]_vars

\* C8 witness: a matching message was handled after the timeout of an iframe
\* attempt (its listener is gone though its timer fired), and a popup was
\* closed by a message after its attempt timed out.
C8_Witness ==
  \E a, b \in Attempts :
    /\ attempt[a].kind = "iframe" /\ attempt[a].timer = "fired"
    /\ a \notin listeners
    /\ attempt[a].promise = Rejected(TIMEOUT_ERROR)
    /\ attempt[b].kind = "popup" /\ attempt[b].timer = "fired"
    /\ popups[attempt[b].popup] = "closed"
    /\ attempt[b].promise.state = "rejected"

\* C9: a runPopup call that got no popup handle threw: it returned no
\* promise, armed no timer and registered no listener.
C9_BlockedPopupThrows ==
  \A a \in Attempts :
    (attempt[a].kind = "popup" /\ attempt[a].popup = 0)
      => /\ attempt[a].exit = "threw"
         /\ attempt[a].timer = "unset"
         /\ a \notin listeners

\* C9 witness: a runPopup call threw while an earlier attempt is pending.
C9_Witness ==
  \E a, b \in Attempts :
    /\ attempt[a].exit = "threw"
    /\ attempt[b].exit = "promise" /\ attempt[b].promise = Pending

\* C12 as stated: one step settles at most one pending attempt, so a message
\* that several pending attempts accept settles one and leaves the others
\* pending.
C12_OneAttemptPerMessage ==
  [][Cardinality({a \in Attempts :
                    /\ attempt[a].promise = Pending
                    /\ attempt'[a].promise # Pending}) <= 1]_vars

\* e.data is an object tagged authorization_response.
Tagged(e) == e.data.tag = "object" /\ e.data.type = "authorization_response"

\* A popup attempt that is waiting for its message.
PendingPopup(a) ==
  attempt[a].kind = "popup" /\ attempt[a].exit = "promise"
    /\ attempt[a].promise = Pending

\* C14: in every state, the dispatch of a tagged message of any origin
\* settles every pending popup attempt with the message's response (rejected
\* when the response has an error, resolved otherwise), clears its timer and
\* closes its popup; the dispatch of any other message leaves the attempt
\* pending, its timer armed and its popup as it is.
C14_PopupAnyOrigin ==
  \A e \in MessageEvents, a \in Attempts :
    PendingPopup(a) =>
      LET st == Dispatch(Window, listeners, e, 1)
          r == e.data.response
      IN  IF Tagged(e)
            THEN /\ st.attempt[a].promise
                      = IF r.error # Absent THEN Rejected(r) ELSE Fulfilled(r)
                 /\ st.attempt[a].timer = "cleared"
                 /\ st.popups[attempt[a].popup] = "closed"
            ELSE /\ st.attempt[a] = attempt[a]
                 /\ attempt[a].timer = "armed"
                 /\ st.popups[attempt[a].popup] = popups[attempt[a].popup]

\* C14 witness: a popup attempt was rejected by a tagged message that an
\* iframe attempt begun before it, still pending, did not accept: it came
\* from another origin than the one the iframe attempt expects.
C14_Witness ==
  \E a, b \in Attempts :
    /\ a < b
    /\ attempt[a].kind = "iframe" /\ attempt[a].promise = Pending
    /\ attempt[a].eventOrigin = "https://tenant.auth0.com"
    /\ attempt[b].kind = "popup" /\ attempt[b].timer = "cleared"
    /\ attempt[b].promise.state = "rejected"
    /\ popups[attempt[b].popup] = "closed"

\* C15: an iframe attempt that a matching message settled (its timer is
\* cleared) has its iframe in the document exactly as long as the grace-delay
\* timer is armed, and no step but the firing of that timer takes it out; an
\* attempt whose timeout fired has no iframe in the document from that step
\* on; and while the timeout is armed the attempt is pending with its iframe
\* in the document.
C15_RemovalOrderedByExit ==
  /\ [](\A a \in Attempts :
          attempt[a].kind = "iframe" =>
            /\ attempt[a].timer = "cleared"
                 => /\ attempt[a].promise # Pending
                    /\ attempt[a].inBody = (attempt[a].cleanup > 0)
            /\ attempt[a].timer = "fired"
                 => /\ attempt[a].promise = Rejected(TIMEOUT_ERROR)
                    /\ ~attempt[a].inBody
            /\ attempt[a].timer = "armed"
                 => attempt[a].promise = Pending /\ attempt[a].inBody)
  /\ [][\A a \in Attempts :
          (attempt[a].kind = "iframe" /\ attempt[a].inBody)
            => /\ (attempt[a].promise = Pending /\ attempt'[a].timer = "cleared")
                    => attempt'[a].inBody /\ attempt'[a].cleanup > 0
               /\ (attempt[a].timer = "cleared" /\ ~attempt'[a].inBody)
                    => attempt'[a].cleanup < attempt[a].cleanup
               /\ (attempt[a].timer = "armed" /\ attempt'[a].timer = "fired")
                    => /\ attempt'[a].promise = Rejected(TIMEOUT_ERROR)
                       /\ ~attempt'[a].inBody]_vars

\* C15 witness: one iframe attempt was resolved by a message and its iframe
\* is still in the document, another timed out and its iframe is gone.
C15_Witness ==
  \E a, b \in Attempts :
    /\ attempt[a].kind = "iframe" /\ attempt[a].timer = "cleared"
    /\ attempt[a].promise.state = "fulfilled" /\ attempt[a].inBody
    /\ attempt[b].kind = "iframe" /\ attempt[b].timer = "fired"
    /\ ~attempt[b].inBody

\* A runPopup call that got past the test of its popup handle.
PopupListening(a) == attempt[a].kind = "popup" /\ attempt[a].exit = "promise"

\* C16: the listener of every runPopup call that got past the test of its
\* popup handle is registered, whatever became of the attempt, and the popup
\* listeners registered are those; the dispatch of a tagged message leaves
\* them registered, closes the popup of every such attempt and changes the
\* promise of none that is settled.
C16_PopupListenerStays ==
  /\ \A a \in Attempts : PopupListening(a) => a \in listeners
  /\ Cardinality({a \in listeners : attempt[a].kind = "popup"})
       = Cardinality({a \in Attempts : PopupListening(a)})
  /\ \A e \in MessageEvents : Tagged(e) =>
       LET st == Dispatch(Window, listeners, e, 1)
       IN  \A a \in Attempts : PopupListening(a) =>
             /\ a \in st.listeners
             /\ st.popups[attempt[a].popup] = "closed"
             /\ attempt[a].promise # Pending
                  => st.attempt[a].promise = attempt[a].promise

\* C16 witness: a popup attempt that opened its own popup timed out, handing
\* the popup to the caller, and a later tagged message closed that popup; the
\* rejection stands and the listener is still registered.
C16_Witness ==
  \E a \in Attempts :
    /\ PopupListening(a)
    /\ attempt[a].popup = a
    /\ attempt[a].timer = "fired"
    /\ attempt[a].promise = Rejected(PopupTimeoutError(attempt[a].popup))
    /\ popups[attempt[a].popup] = "closed"
    /\ a \in listeners

\* Where an attempt stands: Started once the call returned its promise, then
\* Resolved or Rejected by a message, or TimedOut.
Phase(a) ==
  IF attempt[a].exit # "promise" THEN "None"
  ELSE IF attempt[a].promise = Pending THEN "Started"
  ELSE IF attempt[a].promise.state = "fulfilled" THEN "Resolved"
  ELSE IF attempt[a].promise.value.error = "timeout" THEN "TimedOut"
  ELSE "Rejected"

\* C19: with timers that fire, every attempt that started reaches Resolved,
\* Rejected or TimedOut, whatever messages arrive or fail to; a started
\* attempt moves nowhere but into one of these, it is TimedOut exactly when
\* its timeout fired, and an attempt in one of them stays in it.
C19_StartedThenTerminal ==
  /\ \A a \in Attempts :
       Phase(a) = "Started" ~> Phase(a) \in {"Resolved", "Rejected", "TimedOut"}
  /\ [](\A a \in Attempts :
          attempt[a].exit = "promise"
            => /\ (Phase(a) = "TimedOut") = (attempt[a].timer = "fired")
               /\ (Phase(a) = "Started") = (attempt[a].timer = "armed"))
  /\ [][\A a \in Attempts :
          /\ Phase(a) = "Started"
               => Phase(a)' \in {"Started", "Resolved", "Rejected", "TimedOut"}
          /\ Phase(a) \in {"Resolved", "Rejected", "TimedOut"}
               => Phase(a)' = Phase(a)]_vars

\* C19 witness: an iframe attempt and a popup attempt both timed out, no
\* message having settled them; a tagged message was handled later (the
\* iframe listener is gone, the popup closed) and both are still TimedOut.
C19_Witness ==
  \E a, b \in Attempts :
    /\ attempt[a].kind = "iframe" /\ Phase(a) = "TimedOut"
    /\ a \notin listeners
    /\ attempt[b].kind = "popup" /\ Phase(b) = "TimedOut"
    /\ attempt[b].popup = b /\ popups[b] = "closed"

=============================================================================
